---- MODULE Spec2Model ----
(***************************************************************************)
(* A model of the ResumeForge API server: the route handlers of            *)
(* server/index.js (documents, shares, shared view / edit / download) over *)
(* a Firestore-like document store.                                        *)
(*                                                                         *)
(* Time is counted in hours (Date.now() / 3600000): requests arrive on     *)
(* whole hours, so 30 days are 720 units and the 60 minutes of the rate    *)
(* limit are 1 unit.  Every comparison keeps the strictness of the code.   *)
(*                                                                         *)
(* Every handler is an operator from a world (the store, the clock and the *)
(* id sources) and the request's inputs to a result                        *)
(* [status, body, world]; an action of the specification applies one       *)
(* handler to the current world.  The create-share route and the PDF       *)
(* export routes are also modelled one await at a time, where requests     *)
(* interleave.                                                             *)
(***************************************************************************)
EXTENDS Integers, FiniteSets, Sequences, TLC

VARIABLES
    documents,  \* the store's collection 'documents'
    shares,     \* the store's collection 'shares', keyed by share token
    now,        \* the clock
    docSeq,     \* how many document ids the store has generated
    tokSeq,     \* how many share tokens have been generated
    res,        \* the last response of a document or share route: route, status
    inflight,   \* the create-share requests that are between two store calls
    renderer,   \* the revision that runs: "puppeteer" (index.js) or "wkhtmltopdf"
    server,     \* where the start of the server stands
    browserInstance,  \* the pooled browser, once launched
    pages,      \* the pages opened in the browser: "open" or "closed"
    loaded,     \* the HTML that each page holds
    exports     \* the PDF export requests received, in the order of arrival

storeVars == <<documents, shares, now, docSeq, tokSeq, res, inflight>>

renderVars == <<renderer, server, browserInstance, pages, loaded, exports>>

vars == <<documents, shares, now, docSeq, tokSeq, res, inflight,
          renderer, server, browserInstance, pages, loaded, exports>>

(***************************************************************************)
(* Bounds of the model.                                                    *)
(***************************************************************************)
MaxDocs == 1
MaxTokens == 2
MaxHours == 2
MaxMonths == 2
RateDocs == 11
MaxInflight == 2
MaxExports == 2
MaxListed == 2

(***************************************************************************)
(* Program constants, in hours.                                            *)
(***************************************************************************)
ShareTtl == 720
RateWindow == 1
RateLimit == 10

Users == {"u1", "u2"}

\* A request field that is absent from the JSON body destructures to undefined.
Undefined == "undefined"

\* '' the empty string, and the falsy test of `x || default` and `!x`.
Empty == ""
Falsy(v) == v \in {Undefined, Empty}

allowedStatuses == {"Draft", "Applied", "Interviewing", "Offer", "Rejected"}

ContentFields == {"resumeMarkdown", "coverLetterMarkdown", "notes"}

(***************************************************************************)
(* The store.  A collection is a function from the ids of the documents it *)
(* holds to their data; a document's data is a function from field names.  *)
(***************************************************************************)
World == [documents |-> documents, shares |-> shares, now |-> now,
          docSeq |-> docSeq, tokSeq |-> tokSeq]

Exists(coll, id) == id \in DOMAIN coll

\* DocumentReference.set(data): create or overwrite.
StoreSet(coll, id, data) ==
    [k \in DOMAIN coll \cup {id} |-> IF k = id THEN data ELSE coll[k]]

\* Faulty variant: the document stays.
StoreDeleteNothing(coll, id) == coll

\* DocumentReference.delete().
StoreDelete(coll, id) == [k \in DOMAIN coll \ {id} |-> coll[k]]

\* DocumentReference.update(data) on an existing document: the named fields
\* are replaced, the others kept.
MergeFields(old, data) ==
    [f \in DOMAIN old \cup DOMAIN data |-> IF f \in DOMAIN data THEN data[f] ELSE old[f]]

StoreUpdate(coll, id, data) ==
    [k \in DOMAIN coll |-> IF k = id THEN MergeFields(coll[k], data) ELSE coll[k]]

\* The store refuses undefined as a field value (ignoreUndefinedProperties is
\* not set): add() and update() throw.
HasUndefined(data, fields) == \E f \in fields : data[f] = Undefined

\* Faulty variant: the ownership check is left out.
NotOwnerSkipped(doc, uid) == FALSE

\* doc.data().userId !== uid
NotOwner(doc, uid) == doc.userId # uid

Result(status, body, w) == [status |-> status, body |-> body, world |-> w]

NoBody == [message |-> "none"]

(***************************************************************************)
(* Document routes.                                                        *)
(***************************************************************************)
DocInputFields ==
    {"companyName", "positionName", "resumeMarkdown", "coverLetterMarkdown", "status", "notes"}

\* POST /api/documents
PostDocument(w, uid, body) ==
    LET newDoc == [userId |-> uid,
                   companyName |-> body.companyName,
                   positionName |-> body.positionName,
                   resumeMarkdown |-> body.resumeMarkdown,
                   coverLetterMarkdown |-> body.coverLetterMarkdown,
                   status |-> IF Falsy(body.status) THEN "Draft" ELSE body.status,
                   notes |-> IF Falsy(body.notes) THEN Empty ELSE body.notes,
                   createdAt |-> w.now]
        id == w.docSeq + 1
    IN  IF HasUndefined(newDoc, DocInputFields)
        THEN Result(500, [message |-> "Error creating document"], w)
        ELSE Result(201, [id |-> id, doc |-> newDoc],
                    [w EXCEPT !.documents = StoreSet(@, id, newDoc), !.docSeq = id])

\* GET /api/documents/:id
GetDocument(w, uid, docId) ==
    IF ~Exists(w.documents, docId)
    THEN Result(404, [message |-> "Document not found."], w)
    ELSE IF NotOwner(w.documents[docId], uid)
    THEN Result(403, [message |-> "Forbidden"], w)
    ELSE Result(200, [id |-> docId, doc |-> w.documents[docId]], w)

\* PUT /api/documents/:id
PutDocument(w, uid, docId, body) ==
    LET updatableData == [companyName |-> body.companyName,
                          positionName |-> body.positionName,
                          resumeMarkdown |-> body.resumeMarkdown,
                          coverLetterMarkdown |-> body.coverLetterMarkdown,
                          status |-> body.status,
                          notes |-> body.notes,
                          updatedAt |-> w.now]
    IN  IF ~Exists(w.documents, docId)
        THEN Result(404, [message |-> "Document not found."], w)
        ELSE IF NotOwner(w.documents[docId], uid)
        THEN Result(403, [message |-> "Forbidden"], w)
        ELSE IF HasUndefined(updatableData, DocInputFields)
        THEN Result(500, [message |-> "Error updating document."], w)
        ELSE Result(200, [message |-> "Document updated successfully."],
                    [w EXCEPT !.documents = StoreUpdate(@, docId, updatableData)])

\* Faulty variant: the shares of the document are deleted with it.
DeleteDocumentWithShares(w, uid, docId) ==
    IF ~Exists(w.documents, docId)
    THEN Result(404, [message |-> "Document not found."], w)
    ELSE IF NotOwner(w.documents[docId], uid)
    THEN Result(403, [message |-> "Forbidden"], w)
    ELSE Result(200, [message |-> "Document deleted successfully."],
                [w EXCEPT !.documents = StoreDelete(@, docId),
                          !.shares =
                              [t \in {u \in DOMAIN w.shares :
                                         w.shares[u].documentId # docId}
                                  |-> w.shares[t]]])

\* DELETE /api/documents/:id
DeleteDocument(w, uid, docId) ==
    IF ~Exists(w.documents, docId)
    THEN Result(404, [message |-> "Document not found."], w)
    ELSE IF NotOwner(w.documents[docId], uid)
    THEN Result(403, [message |-> "Forbidden"], w)
    ELSE Result(200, [message |-> "Document deleted successfully."],
                [w EXCEPT !.documents = StoreDelete(@, docId)])

\* PUT /api/documents/:id/status
PutDocumentStatus(w, uid, docId, status) ==
    IF Falsy(status) \/ status \notin allowedStatuses
    THEN Result(400, [message |-> "Invalid status provided."], w)
    ELSE IF ~Exists(w.documents, docId)
    THEN Result(404, [message |-> "Document not found."], w)
    ELSE IF NotOwner(w.documents[docId], uid)
    THEN Result(403, [message |-> "Forbidden"], w)
    ELSE Result(200, [message |-> "Document status updated."],
                [w EXCEPT !.documents = StoreUpdate(@, docId, [status |-> status])])

(***************************************************************************)
(* Sharing routes.                                                         *)
(***************************************************************************)
\* Faulty variant: every value passes for a boolean.
isBoolSkipped(v) == TRUE

\* const isBool = v => typeof v === 'boolean' || v === undefined || v === null
\* over the JSON values "true", "false", "null", a string, or an absent field.
isBool(v) == v \in {"true", "false", Undefined, "null"}

\* !!v
Truthy(v) == v \notin {"false", Undefined, "null", Empty}

\* Faulty variant: the comparison is the wrong way round.
ExpiredReversed(share, clock) == share.expiresAt > clock

\* Faulty variant: the expiry check is left out.
ExpiredNever(share, clock) == FALSE

\* shareData.expiresAt.toDate() < new Date()
Expired(share, clock) == share.expiresAt < clock

\* Faulty variant: the share lives an hour, not thirty days.
ExpiryFromAnHour(clock) == clock + RateWindow

\* Faulty variant: the thirty days are counted from the epoch.
ExpiryFromEpoch(clock) == ShareTtl

\* new Date(Date.now() + 30 * 24 * 60 * 60 * 1000)
ExpiryFrom(clock) == clock + ShareTtl

\* Faulty variant: the limit is off by one.
RateLimitedOffByOne(n) == n > RateLimit

\* recentSharesSnap.size >= 10
RateLimited(n) == n >= RateLimit

\* Faulty variant: the query looks for the shares of the other users.
SharesOfOthers(shs, documentId, uid) ==
    {t \in DOMAIN shs : shs[t].documentId = documentId /\ shs[t].createdBy # uid}

\* shares where documentId == d and createdBy == uid
SharesOf(shs, documentId, uid) ==
    {t \in DOMAIN shs : shs[t].documentId = documentId /\ shs[t].createdBy = uid}

\* .limit(1): the first match in the store's order of keys.
FirstOf(S) == CHOOSE t \in S : \A t2 \in S : t <= t2

\* shares where createdBy == uid and createdAt >= oneHourAgo
RecentShares(shs, uid, clock) ==
    {t \in DOMAIN shs : shs[t].createdBy = uid /\ shs[t].createdAt >= clock - RateWindow}

newConfig(body) ==
    [resumeMarkdown |-> Truthy(body.resumeMarkdown),
     coverLetterMarkdown |-> Truthy(body.coverLetterMarkdown),
     notes |-> Truthy(body.notes)]

\* Faulty variant: the configuration is not consulted.
ShownAll(shareData) == ContentFields

\* if (shareData.config && shareData.config.f) response.f = documentData.f
Shown(shareData) == {f \in ContentFields : shareData.config[f]}

\* async function fetchSharedDocumentData(shareToken); a thrown error with
\* e.status is the result's status.
fetchSharedDocumentData(w, shareToken) ==
    IF ~Exists(w.shares, shareToken)
    THEN Result(404, [message |-> "Share not found or has expired."], w)
    ELSE LET shareData == w.shares[shareToken] IN
    IF Expired(shareData, w.now)
    THEN Result(410, [message |-> "This share has expired."], w)
    ELSE IF ~Exists(w.documents, shareData.documentId)
    THEN Result(404, [message |-> "Original document not found."], w)
    ELSE LET documentData == w.documents[shareData.documentId]
             shown == Shown(shareData)
         IN  Result(200,
                    [f \in {"companyName", "positionName", "isEditable"} \cup shown |->
                        IF f = "isEditable" THEN shareData.isEditable
                        ELSE documentData[f]],
                    w)

\* Faulty variant: the update stamps createdAt, not updatedAt.
shareUpdateStampsCreatedAt(body, clock, newExpiresAt) ==
    [config |-> newConfig(body), createdAt |-> clock,
     expiresAt |-> newExpiresAt,
     isEditable |-> Truthy(body.isEditable)]

\* The fields shareRef.update() writes on the update path.
shareUpdate(body, clock, newExpiresAt) ==
    [config |-> newConfig(body), updatedAt |-> clock,
     expiresAt |-> newExpiresAt,
     isEditable |-> Truthy(body.isEditable)]

\* POST /api/documents/:documentId/share
PostShare(w, uid, documentId, body) ==
    IF ~isBool(body.resumeMarkdown) \/ ~isBool(body.coverLetterMarkdown)
       \/ ~isBool(body.notes) \/ ~isBool(body.isEditable)
    THEN Result(400, [message |-> "Invalid share configuration."], w)
    ELSE IF ~Exists(w.documents, documentId)
    THEN Result(404, [message |-> "Document not found."], w)
    ELSE IF NotOwner(w.documents[documentId], uid)
    THEN Result(403, [message |-> "Forbidden"], w)
    ELSE LET sharesSnapshot == SharesOf(w.shares, documentId, uid) IN
    IF sharesSnapshot # {}
    THEN LET existingShare == FirstOf(sharesSnapshot)
             newExpiresAt == ExpiryFrom(w.now)
         IN  Result(200,
                    [message |-> "Share link updated.", shareUrl |-> existingShare,
                     expiresAt |-> newExpiresAt],
                    [w EXCEPT !.shares = StoreUpdate(@, existingShare,
                        shareUpdate(body, w.now, newExpiresAt))])
    ELSE IF RateLimited(Cardinality(RecentShares(w.shares, uid, w.now)))
    THEN Result(429, [message |-> "Rate limit exceeded"], w)
    ELSE LET shareToken == w.tokSeq + 1
             shareData == [documentId |-> documentId,
                           config |-> newConfig(body),
                           createdAt |-> w.now,
                           createdBy |-> uid,
                           expiresAt |-> ExpiryFrom(w.now),
                           isEditable |-> Truthy(body.isEditable)]
         IN  Result(200,
                    [message |-> "Share link created.", shareUrl |-> shareToken,
                     expiresAt |-> shareData.expiresAt],
                    [w EXCEPT !.shares = StoreSet(@, shareToken, shareData),
                              !.tokSeq = shareToken])

\* GET /api/documents/:documentId/share: the share with the latest createdAt.
GetLatestShare(w, uid, documentId) ==
    IF ~Exists(w.documents, documentId)
    THEN Result(404, [message |-> "Document not found."], w)
    ELSE IF NotOwner(w.documents[documentId], uid)
    THEN Result(403, [message |-> "Forbidden"], w)
    ELSE LET sharesSnapshot == SharesOf(w.shares, documentId, uid) IN
    IF sharesSnapshot = {}
    THEN Result(404, [message |-> "No share link found for this document."], w)
    ELSE LET latestShare == CHOOSE t \in sharesSnapshot :
                 \A t2 \in sharesSnapshot :
                     \/ w.shares[t2].createdAt < w.shares[t].createdAt
                     \/ w.shares[t2].createdAt = w.shares[t].createdAt /\ t <= t2
         IN  Result(200,
                    [shareUrl |-> latestShare,
                     shareConfig |-> w.shares[latestShare].config,
                     expiresAt |-> w.shares[latestShare].expiresAt],
                    w)

\* GET /api/documents/:documentId/shares
GetShares(w, uid, documentId) ==
    IF ~Exists(w.documents, documentId)
    THEN Result(404, [message |-> "Document not found."], w)
    ELSE IF NotOwner(w.documents[documentId], uid)
    THEN Result(403, [message |-> "Forbidden"], w)
    ELSE Result(200,
                [shares |-> [t \in SharesOf(w.shares, documentId, uid) |-> w.shares[t]]],
                w)

\* Faulty variant: the document of the share is not compared.
DeleteShareOfAnyDocument(w, uid, documentId, shareToken) ==
    IF ~Exists(w.shares, shareToken)
    THEN Result(404, [message |-> "Share not found."], w)
    ELSE IF w.shares[shareToken].createdBy # uid
    THEN Result(403, [message |-> "Forbidden"], w)
    ELSE Result(200, [message |-> "Share deleted successfully."],
                [w EXCEPT !.shares = StoreDelete(@, shareToken)])

\* DELETE /api/documents/:documentId/shares/:shareToken
DeleteShare(w, uid, documentId, shareToken) ==
    IF ~Exists(w.shares, shareToken)
    THEN Result(404, [message |-> "Share not found."], w)
    ELSE IF w.shares[shareToken].createdBy # uid
            \/ w.shares[shareToken].documentId # documentId
    THEN Result(403, [message |-> "Forbidden"], w)
    ELSE Result(200, [message |-> "Share deleted successfully."],
                [w EXCEPT !.shares = StoreDelete(@, shareToken)])

\* Faulty variant: the write creates the document when it is missing, as
\* set(data, {merge: true}) does.
setMerge(coll, id, data) ==
    [thrown |-> FALSE,
     coll |-> IF Exists(coll, id) THEN StoreUpdate(coll, id, data)
              ELSE StoreSet(coll, id, data)]

\* await docRef.update(updatableData): it throws when the document is
\* missing and writes nothing.
update(coll, id, data) ==
    IF Exists(coll, id)
    THEN [thrown |-> FALSE, coll |-> StoreUpdate(coll, id, data)]
    ELSE [thrown |-> TRUE, coll |-> coll]

\* Faulty variant: the editable flag is not consulted.
NotEditableSkipped(shareData) == FALSE

\* if (!shareData.isEditable)
NotEditable(shareData) == ~shareData.isEditable

\* Faulty variant: every supplied field is written.
SharedUpdatableAnyField(shareData, body) ==
    {f \in ContentFields : body[f] # Undefined}

\* The fields PUT /api/documents/share/:shareToken writes: those the share
\* shows and the body supplies.
SharedUpdatable(shareData, body) ==
    {f \in ContentFields : shareData.config[f] /\ body[f] # Undefined}

\* PUT /api/documents/share/:shareToken (public)
PutSharedDocument(w, shareToken, body) ==
    IF ~Exists(w.shares, shareToken)
    THEN Result(404, [message |-> "Share link not found or has expired."], w)
    ELSE LET shareData == w.shares[shareToken] IN
    IF NotEditable(shareData)
    THEN Result(403, [message |-> "Forbidden: This document is not editable."], w)
    ELSE IF Expired(shareData, w.now)
    THEN Result(410, [message |-> "This share link has expired."], w)
    ELSE LET written == SharedUpdatable(shareData, body)
             updatableData == [f \in written \cup {"updatedAt"} |->
                                  IF f = "updatedAt" THEN w.now ELSE body[f]]
             updated == update(w.documents, shareData.documentId, updatableData)
         IN  IF updated.thrown
             THEN Result(500, [message |-> "An error occurred while updating the document."], w)
             ELSE Result(200, [message |-> "Document updated successfully."],
                         [w EXCEPT !.documents = updated.coll])

\* GET /api/documents/share/:shareToken (public)
GetSharedDocument(w, shareToken) == fetchSharedDocumentData(w, shareToken)

\* `x === 'true' && sharedData.f`: the section is asked for, shown and not empty.
\* Faulty variant: an empty section counts as included.
HasSectionRequested(view, flag, f) ==
    flag = "true" /\ f \in DOMAIN view

\* resume === 'true' && sharedData.resumeMarkdown
HasSection(view, flag, f) ==
    flag = "true" /\ f \in DOMAIN view /\ ~Falsy(view[f])

Separator == "\n\n---\n\n"

\* GET /api/documents/share/:shareToken/download (public); the Markdown is
\* the sequence of its parts.
DownloadSharedDocument(w, shareToken, resume, cover_letter) ==
    LET fetched == fetchSharedDocumentData(w, shareToken) IN
    IF fetched.status # 200 THEN fetched
    ELSE LET sharedData == fetched.body
             baseFilename == IF Falsy(sharedData.companyName) THEN "document"
                             ELSE sharedData.companyName
             hasResume == HasSection(sharedData, resume, "resumeMarkdown")
             hasCoverLetter == HasSection(sharedData, cover_letter, "coverLetterMarkdown")
             part1 == IF hasResume THEN <<sharedData.resumeMarkdown>> ELSE <<>>
             markdownContent ==
                 IF hasCoverLetter
                 THEN (IF part1 # <<>> THEN Append(part1, Separator) ELSE part1)
                          \o <<sharedData.coverLetterMarkdown>>
                 ELSE part1
             suffix == IF hasResume /\ hasCoverLetter THEN "-application.pdf"
                       ELSE IF hasResume THEN "-resume.pdf"
                       ELSE IF hasCoverLetter THEN "-cover-letter.pdf"
                       ELSE ".pdf"
         IN  IF markdownContent = <<>>
             THEN Result(400, [message |-> "No content available to download."], w)
             ELSE Result(200,
                         [filename |-> <<baseFilename, suffix>>,
                          markdownContent |-> markdownContent],
                         w)

(***************************************************************************)
(* Requests: the inputs the model draws.                                   *)
(***************************************************************************)
DocIds == 1..MaxDocs
Tokens == 1..MaxTokens

CreateBodies ==
    {[companyName |-> "Acme", positionName |-> "Engineer", resumeMarkdown |-> "R0",
      coverLetterMarkdown |-> "C0", status |-> Undefined, notes |-> Undefined]}

\* A full body, and a partial one.
PutBodies ==
    {[companyName |-> "Acme", positionName |-> "Engineer", resumeMarkdown |-> "R1",
      coverLetterMarkdown |-> "C1", status |-> "Applied", notes |-> "N1"],
     [companyName |-> Undefined, positionName |-> Undefined, resumeMarkdown |-> Undefined,
      coverLetterMarkdown |-> Undefined, status |-> Undefined, notes |-> "N1"]}

StatusInputs == {"Applied", "Bogus", Undefined}

\* Every share body of booleans.
BoolShareBodies ==
    [resumeMarkdown : {"true", "false"}, coverLetterMarkdown : {"true", "false"},
     notes : {"true", "false"}, isEditable : {"true", "false"}]

\* Two share bodies: an editable one with an absent and a null flag, and one
\* whose flag is a string.
FewShareBodies ==
    {[resumeMarkdown |-> "true", coverLetterMarkdown |-> Undefined, notes |-> "null",
      isEditable |-> "true"],
     [resumeMarkdown |-> "true", coverLetterMarkdown |-> "true", notes |-> "true",
      isEditable |-> "yes"]}

SharedBodies ==
    [resumeMarkdown : {"R1", Undefined}, coverLetterMarkdown : {"C1", Undefined},
     notes : {"N1", Undefined}]

\* The request that shares everything.
FirstBodies ==
    {b \in BoolShareBodies : \A f \in DOMAIN b : b[f] = "true"}

FullSharedBodies ==
    {[resumeMarkdown |-> "R1", coverLetterMarkdown |-> "C1", notes |-> "N1"]}

QueryFlags == {"true", Undefined}

(***************************************************************************)
(* Actions: one per route, applying its handler to the current world.      *)
(***************************************************************************)
Respond(op, r) ==
    /\ documents' = r.world.documents
    /\ shares' = r.world.shares
    /\ docSeq' = r.world.docSeq
    /\ tokSeq' = r.world.tokSeq
    /\ now' = now
    /\ res' = [op |-> op, status |-> r.status]
    /\ inflight' = inflight
    /\ UNCHANGED renderVars

DoPostDocument(users, bodies) ==
    \E uid \in users, body \in bodies :
        /\ docSeq < MaxDocs
        /\ Respond("PostDocument", PostDocument(World, uid, body))

DoGetDocument ==
    \E uid \in Users, docId \in DocIds :
        Respond("GetDocument", GetDocument(World, uid, docId))

DoPutDocument(bodies) ==
    \E uid \in Users, docId \in DocIds, body \in bodies :
        Respond("PutDocument", PutDocument(World, uid, docId, body))

DoDeleteDocument ==
    \E uid \in Users, docId \in DocIds :
        Respond("DeleteDocument", DeleteDocument(World, uid, docId))

DoPutDocumentStatus(inputs) ==
    \E uid \in Users, docId \in DocIds, status \in inputs :
        Respond("PutDocumentStatus", PutDocumentStatus(World, uid, docId, status))

DoPostShare(users, docs, bodies, maxTok) ==
    \E uid \in users, documentId \in docs, body \in bodies :
        /\ tokSeq < maxTok
        /\ Respond("PostShare", PostShare(World, uid, documentId, body))

DoGetLatestShare ==
    \E uid \in Users, documentId \in DocIds :
        Respond("GetLatestShare", GetLatestShare(World, uid, documentId))

DoGetShares ==
    \E uid \in Users, documentId \in DocIds :
        Respond("GetShares", GetShares(World, uid, documentId))

DoDeleteShare ==
    \E uid \in Users, documentId \in DocIds, shareToken \in Tokens :
        Respond("DeleteShare", DeleteShare(World, uid, documentId, shareToken))

DoPutSharedDocument(bodies) ==
    \E shareToken \in Tokens, body \in bodies :
        Respond("PutSharedDocument", PutSharedDocument(World, shareToken, body))

DoGetSharedDocument ==
    \E shareToken \in Tokens :
        Respond("GetSharedDocument", GetSharedDocument(World, shareToken))

DoDownloadSharedDocument ==
    \E shareToken \in Tokens, resume \in QueryFlags, cover_letter \in QueryFlags :
        Respond("DownloadSharedDocument",
                DownloadSharedDocument(World, shareToken, resume, cover_letter))

\* The clock: an hour passes, or the 30 days of a share's life.
Hour ==
    /\ now % ShareTtl < MaxHours
    /\ now' = now + RateWindow
    /\ UNCHANGED <<documents, shares, docSeq, tokSeq, res, inflight>>
    /\ UNCHANGED renderVars

Month ==
    /\ now \div ShareTtl < MaxMonths
    /\ now' = now + ShareTtl
    /\ UNCHANGED <<documents, shares, docSeq, tokSeq, res, inflight>>
    /\ UNCHANGED renderVars

NoResponse == [op |-> "none", status |-> 0]

\* The wkhtmltopdf revision listens as soon as it is loaded; no export
\* request has arrived.
RenderIdle ==
    /\ renderer = "wkhtmltopdf"
    /\ server = "listening"
    /\ browserInstance = "unset"
    /\ pages = <<>>
    /\ loaded = <<>>
    /\ exports = <<>>

(***************************************************************************)
(* Spec: the document and share routes, requests handled one at a time, by *)
(* two users, at one instant.                                              *)
(***************************************************************************)
Init ==
    /\ documents = <<>>
    /\ shares = <<>>
    /\ now = 0
    /\ docSeq = 0
    /\ tokSeq = 0
    /\ res = NoResponse
    /\ inflight = <<>>
    /\ RenderIdle

Next ==
    \/ DoPostDocument(Users, CreateBodies)
    \/ DoGetDocument
    \/ DoPutDocument(PutBodies)
    \/ DoDeleteDocument
    \/ DoPutDocumentStatus(StatusInputs)
    \/ DoPostShare(Users, DocIds, FewShareBodies, MaxTokens)
    \/ DoGetLatestShare
    \/ DoGetShares
    \/ DoDeleteShare
    \/ DoPutSharedDocument(FullSharedBodies)
    \/ DoGetSharedDocument
    \/ DoDownloadSharedDocument

Spec == Init /\ [][Next]_vars

(***************************************************************************)
(* SpecShared: one document of user u1, shared by its owner under every    *)
(* configuration, read, downloaded and edited through the link while the   *)
(* months pass.                                                            *)
(***************************************************************************)
Owner == "u1"

TheDocument ==
    PostDocument([documents |-> <<>>, shares |-> <<>>, now |-> 0, docSeq |-> 0,
                  tokSeq |-> 0],
                 Owner, CHOOSE b \in CreateBodies : TRUE).world

InitShared ==
    /\ documents = TheDocument.documents
    /\ docSeq = TheDocument.docSeq
    /\ shares = <<>>
    /\ now = 0
    /\ tokSeq = 0
    /\ res = NoResponse
    /\ inflight = <<>>
    /\ RenderIdle

NextShared ==
    \/ DoPostShare({Owner}, {1}, BoolShareBodies, MaxTokens)
    \/ DoPutSharedDocument(SharedBodies)
    \/ DoGetSharedDocument
    \/ DoDownloadSharedDocument
    \/ Month

SpecShared == InitShared /\ [][NextShared]_vars

(***************************************************************************)
(* SpecRate: user u1 owns RateDocs documents and shares them one after the *)
(* other while the hours pass.  The documents are alike, so they are       *)
(* shared in the order of their ids.                                       *)
(***************************************************************************)
RateBodies == FirstBodies

NoWorld == [documents |-> <<>>, shares |-> <<>>, now |-> 0, docSeq |-> 0, tokSeq |-> 0]

\* The world after n documents were posted by the owner.
RECURSIVE Posted(_)
Posted(n) ==
    IF n = 0 THEN NoWorld
    ELSE PostDocument(Posted(n - 1), Owner, CHOOSE b \in CreateBodies : TRUE).world

Unshared(uid) ==
    {d \in DOMAIN documents :
        documents[d].userId = uid /\ SharesOf(shares, d, uid) = {}}

NextUnshared(uid) ==
    {d \in Unshared(uid) : \A d2 \in Unshared(uid) : d <= d2}

InitRate ==
    /\ documents = Posted(RateDocs).documents
    /\ docSeq = RateDocs
    /\ shares = <<>>
    /\ now = 0
    /\ tokSeq = 0
    /\ res = NoResponse
    /\ inflight = <<>>
    /\ RenderIdle

NextRate ==
    \/ DoPostShare({Owner}, NextUnshared(Owner), RateBodies, RateDocs)
    \/ Hour

SpecRate == InitRate /\ [][NextRate]_vars

(***************************************************************************)
(* SpecQuota: user u1 creates and deletes shares of their documents while  *)
(* the hours pass; SpecRefresh: u1 creates and refreshes shares.  New      *)
(* shares go to the documents in the order of their ids; the share deleted *)
(* or refreshed is the oldest one.                                         *)
(***************************************************************************)
OldestShare(uid) ==
    {t \in DOMAIN shares :
        /\ shares[t].createdBy = uid
        /\ \A t2 \in DOMAIN shares : shares[t2].createdBy = uid => t <= t2}

OldestShared(uid) == {shares[t].documentId : t \in OldestShare(uid)}

DoDeleteOldestShare(uid) ==
    \E shareToken \in OldestShare(uid) :
        Respond("DeleteShare",
                DeleteShare(World, uid, shares[shareToken].documentId, shareToken))

NextQuota ==
    \/ DoPostShare({Owner}, NextUnshared(Owner), RateBodies, RateDocs)
    \/ DoDeleteOldestShare(Owner)
    \/ Hour

SpecQuota == InitRate /\ [][NextQuota]_vars

NextRefresh ==
    \/ DoPostShare({Owner}, NextUnshared(Owner), RateBodies, RateDocs)
    \/ DoPostShare({Owner}, OldestShared(Owner), RateBodies, RateDocs)
    \/ Hour

SpecRefresh == InitRate /\ [][NextRefresh]_vars

\* SpecReshare: the owner shares the documents, revokes the first link and
\* shares the first document again, while the links are viewed.
DoDeleteShareOf(users, docs, tokens) ==
    \E uid \in users, documentId \in docs, shareToken \in tokens :
        Respond("DeleteShare", DeleteShare(World, uid, documentId, shareToken))

NextReshare ==
    \/ DoPostShare({Owner}, NextUnshared(Owner), RateBodies, RateDocs + 1)
    \/ DoDeleteShareOf({Owner}, {1}, {1})
    \/ DoGetSharedDocument
    \/ Hour

SpecReshare == InitRate /\ [][NextReshare]_vars

\* SpecRevive: the owner shares the documents and, as the months pass,
\* shares the first one again under another configuration.
ReviveBodies ==
    {b \in BoolShareBodies :
        b.resumeMarkdown = "true" /\ b.notes = "false" /\ b.isEditable = "false"}

NextRevive ==
    \/ DoPostShare({Owner}, NextUnshared(Owner), RateBodies, RateDocs)
    \/ DoPostShare({Owner}, {1}, ReviveBodies, RateDocs + 1)
    \/ DoGetSharedDocument
    \/ Month

SpecRevive == InitRate /\ [][NextRevive]_vars

(***************************************************************************)
(* SpecDownload: the owner rewrites the document, with or without a resume *)
(* and a cover letter, and shares it; anyone views and downloads it.       *)
(***************************************************************************)
RewriteBodies ==
    [companyName : {"Acme"}, positionName : {"Engineer"},
     resumeMarkdown : {"R1", Empty}, coverLetterMarkdown : {"C1", Empty},
     status : {"Applied"}, notes : {"N1"}]

DownloadFlags == {"true", "false", Undefined}

DoDownload(flags) ==
    \E shareToken \in Tokens, resume \in flags, cover_letter \in flags :
        Respond("DownloadSharedDocument",
                DownloadSharedDocument(World, shareToken, resume, cover_letter))

NextDownload ==
    \/ DoPutDocument(RewriteBodies)
    \/ DoPostShare({Owner}, {1}, BoolShareBodies, MaxTokens)
    \/ DoGetSharedDocument
    \/ DoDownload(DownloadFlags)

SpecDownload == InitShared /\ [][NextDownload]_vars

(***************************************************************************)
(* SpecConc: the create-share route one store call at a time.  Each await  *)
(* of the handler is a point where another request's step may run; a step  *)
(* is one store call and the code up to the next one.                      *)
(***************************************************************************)
Slots == 1..MaxInflight

ConcBodies == FirstBodies \cup FewShareBodies

Finish(i, status) ==
    /\ inflight' = [k \in DOMAIN inflight \ {i} |-> inflight[k]]
    /\ res' = [op |-> "PostShare", status |-> status]

Goto(i, pc) == inflight' = [inflight EXCEPT ![i].pc = pc]

\* The request arrives: validation, then docRef.get() is issued.
ShareBegin ==
    \E i \in Slots \ DOMAIN inflight, uid \in Users, documentId \in DocIds,
       body \in ConcBodies :
        /\ IF ~isBool(body.resumeMarkdown) \/ ~isBool(body.coverLetterMarkdown)
              \/ ~isBool(body.notes) \/ ~isBool(body.isEditable)
           THEN /\ res' = [op |-> "PostShare", status |-> 400]
                /\ inflight' = inflight
           ELSE /\ inflight' = StoreSet(inflight, i,
                        [pc |-> "getDoc", uid |-> uid, documentId |-> documentId,
                         body |-> body, token |-> 0, expiresAt |-> 0])
                /\ res' = res
        /\ UNCHANGED <<documents, shares, now, docSeq, tokSeq>>
        /\ UNCHANGED renderVars

\* await docRef.get(); the ownership checks; sharesQuery.get() is issued.
ShareGetDoc ==
    \E i \in DOMAIN inflight :
        LET q == inflight[i] IN
        /\ q.pc = "getDoc"
        /\ IF ~Exists(documents, q.documentId) THEN Finish(i, 404)
           ELSE IF NotOwner(documents[q.documentId], q.uid) THEN Finish(i, 403)
           ELSE Goto(i, "lookup") /\ res' = res
        /\ UNCHANGED <<documents, shares, now, docSeq, tokSeq>>
        /\ UNCHANGED renderVars

\* await sharesQuery.get(); on a match the update is issued, else the
\* rate-limit query.
ShareLookup ==
    \E i \in DOMAIN inflight :
        LET q == inflight[i]
            sharesSnapshot == SharesOf(shares, q.documentId, q.uid)
        IN
        /\ q.pc = "lookup"
        /\ IF sharesSnapshot # {}
           THEN inflight' = [inflight EXCEPT ![i].pc = "update",
                                             ![i].token = FirstOf(sharesSnapshot),
                                             ![i].expiresAt = ExpiryFrom(now)]
           ELSE Goto(i, "rate")
        /\ UNCHANGED <<documents, shares, now, docSeq, tokSeq, res>>
        /\ UNCHANGED renderVars

\* await shareRef.update(...); update() of a deleted share throws.
ShareUpdate ==
    \E i \in DOMAIN inflight :
        LET q == inflight[i] IN
        /\ q.pc = "update"
        /\ IF Exists(shares, q.token)
           THEN /\ shares' = StoreUpdate(shares, q.token,
                        shareUpdate(q.body, now, q.expiresAt))
                /\ Finish(i, 200)
           ELSE /\ shares' = shares
                /\ Finish(i, 500)
        /\ UNCHANGED <<documents, now, docSeq, tokSeq>>
        /\ UNCHANGED renderVars

\* await the rate-limit query; under the limit the token is drawn and set()
\* is issued.
ShareRate ==
    \E i \in DOMAIN inflight :
        LET q == inflight[i] IN
        /\ q.pc = "rate"
        /\ IF RateLimited(Cardinality(RecentShares(shares, q.uid, now)))
           THEN Finish(i, 429) /\ tokSeq' = tokSeq
           ELSE /\ tokSeq < MaxTokens
                /\ tokSeq' = tokSeq + 1
                /\ inflight' = [inflight EXCEPT ![i].pc = "set",
                                                ![i].token = tokSeq + 1,
                                                ![i].expiresAt = ExpiryFrom(now)]
                /\ res' = res
        /\ UNCHANGED <<documents, shares, now, docSeq>>
        /\ UNCHANGED renderVars

\* await db.collection('shares').doc(shareToken).set(shareData)
ShareSet ==
    \E i \in DOMAIN inflight :
        LET q == inflight[i] IN
        /\ q.pc = "set"
        /\ shares' = StoreSet(shares, q.token,
                [documentId |-> q.documentId,
                 config |-> newConfig(q.body),
                 createdAt |-> now,
                 createdBy |-> q.uid,
                 expiresAt |-> q.expiresAt,
                 isEditable |-> Truthy(q.body.isEditable)])
        /\ Finish(i, 200)
        /\ UNCHANGED <<documents, now, docSeq, tokSeq>>
        /\ UNCHANGED renderVars

NextConc ==
    \/ ShareBegin
    \/ ShareGetDoc
    \/ ShareLookup
    \/ ShareUpdate
    \/ ShareRate
    \/ ShareSet

SpecConc == InitShared /\ [][NextConc]_vars

(***************************************************************************)
(* SpecRender: the PDF export routes of the two revisions, one step per    *)
(* await or stream event.  index.js renders in a page of one browser that  *)
(* startServer launches before it listens; the wkhtmltopdf revision pipes  *)
(* the output of a converter process into the response.                    *)
(***************************************************************************)
Markdowns == {"# Title", Empty, Undefined}

\* What the synchronous part of a handler meets: nothing, readFileSync
\* throwing, or the call of the converter throwing.
SyncOutcomes == {"ok", "stylesThrow", "rendererThrow"}

\* Faulty variant: the content is not validated.
NoContentSkipped(markdownContent) == FALSE

\* if (!markdownContent)
NoContent(markdownContent) == Falsy(markdownContent)

\* Faulty variant: the page is never closed.
FinallySkipped(page) == "done"

\* finally { if (page) await page.close() }: where the handler goes after
\* the try and the catch.
Finally(page) == IF page # 0 THEN "close" ELSE "done"

\* Faulty variant: listen() does not wait for the launch.
LaunchAwaitedNot == server \in {"startBrowser", "listen"}

\* await startBrowser() has returned
LaunchAwaited == server = "listen"

\* Faulty variant: every request gets the same page.
newPageShared(i) == 1

\* browserInstance.newPage() for the i-th request: a page of its own
newPage(i) == i

\* The document that setContent is given: the styles around the rendering
\* of the Markdown.
fullHtml(markdownContent) == <<"html", "pdfStyles", markdownContent>>

\* page.pdf(): the print of what the page holds
pdfBuffer(html) == <<"pdf", html>>

\* A request as it arrives: not answered, no page, no converter process,
\* nothing printed.
Export(route, markdownContent, shareToken, resume, cover_letter) ==
    [route |-> route, markdownContent |-> markdownContent,
     shareToken |-> shareToken, resume |-> resume, cover_letter |-> cover_letter,
     pc |-> "start", status |-> 0, page |-> 0, spawned |-> FALSE, failed |-> FALSE,
     pdf |-> <<>>]

Answer(q, status) == [q EXCEPT !.status = status]

\* puppeteer.launch() resolves and startBrowser returns, or it rejects and
\* startServer exits the process.
LaunchBrowser ==
    /\ renderer = "puppeteer"
    /\ server = "startBrowser"
    /\ \/ browserInstance' = "browser" /\ server' = "listen"
       \/ browserInstance' = browserInstance /\ server' = "exited"
    /\ UNCHANGED <<renderer, pages, loaded, exports>>
    /\ UNCHANGED storeVars

\* app.listen(PORT)
Listen ==
    /\ renderer = "puppeteer"
    /\ LaunchAwaited
    /\ server' = "listening"
    /\ UNCHANGED <<renderer, browserInstance, pages, loaded, exports>>
    /\ UNCHANGED storeVars

\* POST /api/generate-pdf of index.js, up to browserInstance.newPage()
GeneratePdfPooledOf(markdowns) ==
    /\ renderer = "puppeteer"
    /\ server = "listening"
    /\ Len(exports) < MaxExports
    /\ \E markdownContent \in markdowns, sync \in SyncOutcomes \ {"rendererThrow"} :
        LET q == Export("generate-pdf", markdownContent, 0, Undefined, Undefined) IN
        exports' = Append(exports,
            IF NoContent(markdownContent)
            THEN [Answer(q, 400) EXCEPT !.pc = Finally(0)]
            ELSE IF sync = "stylesThrow"
            THEN [Answer(q, 500) EXCEPT !.pc = Finally(0)]
            ELSE [q EXCEPT !.pc = "newPage"])
    /\ UNCHANGED <<renderer, server, browserInstance, pages, loaded>>
    /\ UNCHANGED storeVars

GeneratePdfPooled == GeneratePdfPooledOf(Markdowns)

\* page = await browserInstance.newPage()
NewPage ==
    \E i \in DOMAIN exports, ok \in BOOLEAN :
        /\ server = "listening"
        /\ exports[i].pc = "newPage"
        /\ IF ok /\ browserInstance # "unset"
           THEN /\ pages' = StoreSet(pages, newPage(i), "open")
                /\ exports' = [exports EXCEPT ![i].page = newPage(i),
                                              ![i].pc = "setContent"]
           ELSE /\ pages' = pages
                /\ exports' = [exports EXCEPT ![i] =
                       [Answer(@, 500) EXCEPT !.failed = TRUE, !.pc = Finally(0)]]
        /\ UNCHANGED <<renderer, server, browserInstance, loaded>>
        /\ UNCHANGED storeVars

\* await page.setContent(fullHtml, ...)
SetContent ==
    \E i \in DOMAIN exports, ok \in BOOLEAN :
        /\ server = "listening"
        /\ exports[i].pc = "setContent"
        /\ exports' = [exports EXCEPT ![i] =
               IF ok THEN [@ EXCEPT !.pc = "pdf"]
               ELSE [Answer(@, 500) EXCEPT !.failed = TRUE,
                                           !.pc = Finally(exports[i].page)]]
        /\ loaded' = IF ok
                     THEN StoreSet(loaded, exports[i].page,
                                   fullHtml(exports[i].markdownContent))
                     ELSE loaded
        /\ UNCHANGED <<renderer, server, browserInstance, pages>>
        /\ UNCHANGED storeVars

\* await page.pdf(...); res.send(pdfBuffer)
PrintPdf ==
    \E i \in DOMAIN exports, ok \in BOOLEAN :
        /\ server = "listening"
        /\ exports[i].pc = "pdf"
        /\ exports' = [exports EXCEPT ![i] =
               IF ok THEN [Answer(@, 200) EXCEPT
                              !.pdf = pdfBuffer(loaded[exports[i].page]),
                              !.pc = Finally(exports[i].page)]
               ELSE [Answer(@, 500) EXCEPT !.failed = TRUE,
                                           !.pc = Finally(exports[i].page)]]
        /\ UNCHANGED <<renderer, server, browserInstance, pages, loaded>>
        /\ UNCHANGED storeVars

\* await page.close()
ClosePage ==
    \E i \in DOMAIN exports :
        /\ server = "listening"
        /\ exports[i].pc = "close"
        /\ pages' = [pages EXCEPT ![exports[i].page] = "closed"]
        /\ exports' = [exports EXCEPT ![i].pc = "done"]
        /\ UNCHANGED <<renderer, server, browserInstance, loaded>>
        /\ UNCHANGED storeVars

\* The end of the synchronous part of a wkhtmltopdf handler: the converter
\* is started and piped into the response, unless something threw.
Piped(q, sync) ==
    IF sync = "stylesThrow"
    THEN [Answer(q, 500) EXCEPT !.pc = "done"]
    ELSE IF sync = "rendererThrow"
    THEN [Answer(q, 500) EXCEPT !.failed = TRUE, !.pc = "done"]
    ELSE [q EXCEPT !.spawned = TRUE, !.pc = "pipe"]

\* POST /api/generate-pdf of the wkhtmltopdf revision
GeneratePdfPiped ==
    /\ renderer = "wkhtmltopdf"
    /\ server = "listening"
    /\ Len(exports) < MaxExports
    /\ \E markdownContent \in Markdowns, sync \in SyncOutcomes :
        LET q == Export("generate-pdf", markdownContent, 0, Undefined, Undefined) IN
        exports' = Append(exports,
            IF NoContent(markdownContent)
            THEN [Answer(q, 400) EXCEPT !.pc = "done"]
            ELSE Piped(q, sync))
    /\ UNCHANGED <<renderer, server, browserInstance, pages, loaded>>
    /\ UNCHANGED storeVars

\* GET /api/documents/share/:shareToken/download, with its rendering
DownloadPiped ==
    /\ renderer = "wkhtmltopdf"
    /\ server = "listening"
    /\ Len(exports) < MaxExports
    /\ \E shareToken \in 1..(tokSeq + 1), resume \in QueryFlags,
          cover_letter \in QueryFlags, sync \in SyncOutcomes :
        LET q == Export("download", Undefined, shareToken, resume, cover_letter)
            r == DownloadSharedDocument(World, shareToken, resume, cover_letter)
        IN  exports' = Append(exports,
                IF r.status # 200
                THEN [Answer(q, r.status) EXCEPT !.pc = "done"]
                ELSE Piped(q, sync))
    /\ UNCHANGED <<renderer, server, browserInstance, pages, loaded>>
    /\ UNCHANGED storeVars

\* The converter writes the PDF and its stream ends: the response is sent.
PipeEnds ==
    \E i \in DOMAIN exports :
        /\ server = "listening"
        /\ exports[i].pc = "pipe"
        /\ exports' = [exports EXCEPT ![i] = [Answer(@, 200) EXCEPT !.pc = "done"]]
        /\ UNCHANGED <<renderer, server, browserInstance, pages, loaded>>
        /\ UNCHANGED storeVars

\* What becomes of a response when the converter fails after it was started.
\* The handler has no code after pipe(res): the stream ends early and the
\* response goes out as it is, or the stream emits 'error' and the response
\* is never ended, or that error, having no listener, ends the process.
PipeFailures == {"ended", "unanswered", "uncaught"}

PipeFails ==
    \E i \in DOMAIN exports, outcome \in PipeFailures :
        /\ server = "listening"
        /\ exports[i].pc = "pipe"
        /\ exports' = [exports EXCEPT ![i].failed = TRUE, ![i].pc = "done",
                                      ![i].status = IF outcome = "ended" THEN 200 ELSE 0]
        /\ server' = IF outcome = "uncaught" THEN "crashed" ELSE server
        /\ UNCHANGED <<renderer, browserInstance, pages, loaded>>
        /\ UNCHANGED storeVars

InitRender ==
    /\ \E w \in {PostShare(Posted(1), Owner, 1, CHOOSE b \in FirstBodies : TRUE).world} :
        /\ documents = w.documents
        /\ shares = w.shares
        /\ now = w.now
        /\ docSeq = w.docSeq
        /\ tokSeq = w.tokSeq
    /\ res = NoResponse
    /\ inflight = <<>>
    /\ renderer \in {"puppeteer", "wkhtmltopdf"}
    /\ server = IF renderer = "puppeteer" THEN "startBrowser" ELSE "listening"
    /\ browserInstance = "unset"
    /\ pages = <<>>
    /\ loaded = <<>>
    /\ exports = <<>>

\* The steps that follow an await or a stream event.
RenderStep ==
    \/ LaunchBrowser
    \/ Listen
    \/ NewPage
    \/ SetContent
    \/ PrintPdf
    \/ ClosePage
    \/ PipeEnds
    \/ PipeFails

NextRender ==
    \/ GeneratePdfPooled
    \/ GeneratePdfPiped
    \/ DownloadPiped
    \/ RenderStep

SpecRender == InitRender /\ [][NextRender]_vars

\* The event loop runs every continuation that is ready.
SpecRenderFair == SpecRender /\ WF_vars(RenderStep)

\* SpecPages: the pooled browser alone, with requests of different content.
PageMarkdowns == {"# Title", "# Other"}

InitPages == InitRender /\ renderer = "puppeteer"

NextPages ==
    \/ GeneratePdfPooledOf(PageMarkdowns)
    \/ LaunchBrowser
    \/ Listen
    \/ NewPage
    \/ SetContent
    \/ PrintPdf
    \/ ClosePage

SpecPages == InitPages /\ [][NextPages]_vars

(***************************************************************************)
(* SpecAuth: requests as they reach the router, with their Authorization   *)
(* header.  A header is the sequence of its scheme and its token; no       *)
(* header is the empty sequence.                                           *)
(***************************************************************************)
\* Faulty variant: the query does not name the user.
DocumentsOfAnyone(docs, uid, status) ==
    {d \in DOMAIN docs :
        Falsy(status) \/ status = "All" \/ docs[d].status = status}

\* db.collection('documents').where('userId', '==', uid), with
\* .where('status', '==', status) when a status other than 'All' is given
DocumentsOf(docs, uid, status) ==
    {d \in DOMAIN docs :
        /\ docs[d].userId = uid
        /\ Falsy(status) \/ status = "All" \/ docs[d].status = status}

\* GET /api/documents; the answer maps the id of each listed document to the
\* fields returned for it.  fields is the list fields.split(',') yields, or
\* undefined.
GetDocuments(w, uid, status, fields) ==
    LET listed == DocumentsOf(w.documents, uid, status)
        Returned(d) ==
            IF fields = <<>>
            THEN DOMAIN w.documents[d]
            ELSE {fields[k] : k \in DOMAIN fields} \cap DOMAIN w.documents[d]
    IN  Result(200,
               [d \in listed |-> [f \in Returned(d) |-> w.documents[d][f]]],
               w)

\* POST /api/generate-pdf up to the call of the converter: status 0 is a
\* response that is still to come from the pipe.
GeneratePdf(w, uid, markdownContent) ==
    IF NoContent(markdownContent)
    THEN Result(400, [message |-> "Markdown content is required."], w)
    ELSE Result(0, [message |-> "piped"], w)

\* admin.auth().verifyIdToken(idToken): the token of a user decodes to that
\* user, any other token is rejected.
verifyIdToken(idToken) == idToken \in Users

\* Faulty variant: the token is decoded but not verified.
authMiddlewareUnverified(authorization) ==
    IF authorization = <<>> \/ authorization[1] # "Bearer "
    THEN [status |-> 401, uid |-> Undefined]
    ELSE [status |-> 0, uid |-> authorization[2]]

\* authMiddleware: status 0 stands for next(), with req.user.uid.
authMiddleware(authorization) ==
    IF authorization = <<>> \/ authorization[1] # "Bearer "
    THEN [status |-> 401, uid |-> Undefined]
    ELSE LET idToken == authorization[2] IN
         IF verifyIdToken(idToken)
         THEN [status |-> 0, uid |-> idToken]
         ELSE [status |-> 403, uid |-> Undefined]

\* The routes registered with authMiddleware, and those registered without.
ProtectedRoutes ==
    {"GetDocuments", "GetDocument", "PostDocument", "PutDocument", "DeleteDocument",
     "PutDocumentStatus", "GeneratePdf", "PostShare", "GetLatestShare", "GetShares",
     "DeleteShare"}

PublicRoutes == {"PutSharedDocument", "GetSharedDocument", "DownloadSharedDocument"}

\* The handler of a route, applied to the request q of the user uid.
Handle(w, uid, q) ==
    CASE q.route = "GetDocuments" -> GetDocuments(w, uid, q.status, q.fields)
      [] q.route = "GetDocument" -> GetDocument(w, uid, q.docId)
      [] q.route = "PostDocument" -> PostDocument(w, uid, q.body)
      [] q.route = "PutDocument" -> PutDocument(w, uid, q.docId, q.body)
      [] q.route = "DeleteDocument" -> DeleteDocument(w, uid, q.docId)
      [] q.route = "PutDocumentStatus" -> PutDocumentStatus(w, uid, q.docId, q.status)
      [] q.route = "GeneratePdf" -> GeneratePdf(w, uid, q.markdownContent)
      [] q.route = "PostShare" -> PostShare(w, uid, q.docId, q.body)
      [] q.route = "GetLatestShare" -> GetLatestShare(w, uid, q.docId)
      [] q.route = "GetShares" -> GetShares(w, uid, q.docId)
      [] q.route = "DeleteShare" -> DeleteShare(w, uid, q.docId, q.shareToken)
      [] q.route = "PutSharedDocument" -> PutSharedDocument(w, q.shareToken, q.body)
      [] q.route = "GetSharedDocument" -> GetSharedDocument(w, q.shareToken)
      [] q.route = "DownloadSharedDocument" ->
             DownloadSharedDocument(w, q.shareToken, q.resume, q.cover_letter)

\* The router: the middleware of a protected route, then its handler.
Serve(w, authorization, q) ==
    IF q.route \in ProtectedRoutes
    THEN LET auth == authMiddleware(authorization) IN
         IF auth.status = 401
         THEN Result(401, [message |-> "Unauthorized: No token provided."], w)
         ELSE IF auth.status = 403
         THEN Result(403, [message |-> "Unauthorized: Invalid token."], w)
         ELSE Handle(w, auth.uid, q)
    ELSE Handle(w, Undefined, q)

Credentials ==
    {<<>>, <<"Basic ", "u1">>, <<"Bearer ", "forged">>, <<"Bearer ", Empty>>}
        \cup {<<"Bearer ", u>> : u \in Users}

\* The requests drawn, route by route.
Requests ==
    {[route |-> "GetDocuments", status |-> st, fields |-> fl] :
        st \in {"Applied"}, fl \in {<<>>, <<"companyName", "userId">>}}
    \cup {[route |-> r, docId |-> d] :
        r \in {"GetDocument", "DeleteDocument", "GetLatestShare", "GetShares"},
        d \in DocIds}
    \cup {[route |-> "PostDocument", body |-> b] : b \in CreateBodies}
    \cup {[route |-> "PutDocument", docId |-> d, body |-> b] :
        d \in DocIds, b \in {b \in PutBodies : ~HasUndefined(b, DOMAIN b)}}
    \cup {[route |-> "PutDocumentStatus", docId |-> d, status |-> "Applied"] :
        d \in DocIds}
    \cup {[route |-> "GeneratePdf", markdownContent |-> m] : m \in {"# Title", Undefined}}
    \cup {[route |-> "PostShare", docId |-> d, body |-> b] :
        d \in DocIds, b \in FirstBodies}
    \cup {[route |-> "DeleteShare", docId |-> d, shareToken |-> t] :
        d \in DocIds, t \in Tokens}
    \cup {[route |-> "PutSharedDocument", shareToken |-> t, body |-> b] :
        t \in Tokens, b \in FullSharedBodies}
    \cup {[route |-> "GetSharedDocument", shareToken |-> t] : t \in Tokens}
    \cup {[route |-> "DownloadSharedDocument", shareToken |-> t,
           resume |-> "true", cover_letter |-> "true"] :
        t \in Tokens}

DoServe ==
    \E authorization \in Credentials, q \in Requests :
        /\ q.route = "PostDocument" => docSeq < MaxDocs
        /\ q.route = "PostShare" => tokSeq < MaxDocs
        /\ Respond(q.route, Serve(World, authorization, q))

SpecAuth == Init /\ [][DoServe]_vars

(***************************************************************************)
(* SpecDocs: two users create, list, rewrite and re-status documents, with *)
(* bodies whose status is absent, known or unknown.  SpecUnrestricted is   *)
(* the same for the revision whose PUT passes req.body to update().        *)
(***************************************************************************)
ListedIds == 1..MaxListed

StatusBodies ==
    [companyName : {"Acme"}, positionName : {"Engineer"}, resumeMarkdown : {"R0"},
     coverLetterMarkdown : {"C0"}, status : {Undefined, "Bogus"}, notes : {Undefined}]

ListStatuses == {Undefined, "All", "Draft", "Applied", "Bogus"}

FieldLists == {<<>>, <<"companyName", "status">>, <<"id", "userId", "unknown">>}

\* PUT /api/documents/:id of the revisions that pass the body on:
\* docRef.update(req.body)
PutDocumentUnrestricted(w, uid, docId, data) ==
    IF ~Exists(w.documents, docId)
    THEN Result(404, [message |-> "Document not found."], w)
    ELSE IF NotOwner(w.documents[docId], uid)
    THEN Result(403, [message |-> "Forbidden"], w)
    ELSE Result(200, [message |-> "Document updated successfully."],
                [w EXCEPT !.documents = StoreUpdate(@, docId, data)])

\* Bodies of one field.
LooseBodies == {[notes |-> "N1"], [userId |-> "u2"], [createdAt |-> 5]}

DoPostDocumentUpTo(users, bodies, max) ==
    \E uid \in users, body \in bodies :
        /\ docSeq < max
        /\ Respond("PostDocument", PostDocument(World, uid, body))

DoPutDocumentOn(docs, bodies) ==
    \E uid \in Users, docId \in docs, body \in bodies :
        Respond("PutDocument", PutDocument(World, uid, docId, body))

DoPutDocumentUnrestricted(docs, bodies) ==
    \E uid \in Users, docId \in docs, data \in bodies :
        Respond("PutDocument", PutDocumentUnrestricted(World, uid, docId, data))

DoPutDocumentStatusOn(docs, inputs) ==
    \E uid \in Users, docId \in docs, status \in inputs :
        Respond("PutDocumentStatus", PutDocumentStatus(World, uid, docId, status))

DoGetDocuments(statuses, lists) ==
    \E uid \in Users, status \in statuses, fields \in lists :
        Respond("GetDocuments", GetDocuments(World, uid, status, fields))

NextDocs ==
    \/ DoPostDocumentUpTo(Users, StatusBodies, MaxListed)
    \/ DoPutDocumentOn(ListedIds, PutBodies)
    \/ DoPutDocumentStatusOn(ListedIds, StatusInputs)
    \/ DoGetDocuments(ListStatuses, FieldLists)

SpecDocs == Init /\ [][NextDocs]_vars

NextUnrestricted ==
    \/ DoPostDocumentUpTo({Owner}, StatusBodies, MaxListed)
    \/ DoPutDocumentUnrestricted(ListedIds, LooseBodies)
    \/ DoPutDocumentStatusOn(ListedIds, StatusInputs)
    \/ DoGetDocument

SpecUnrestricted == Init /\ [][NextUnrestricted]_vars

(***************************************************************************)
(* Properties.  A property about a route quantifies over the requests the  *)
(* route can receive in the current state and looks at the handler's       *)
(* result: its status, its body and the world it leaves.                   *)
(***************************************************************************)
Refused(r, status) == r.status = status /\ r.world = World

AllShareBodies == BoolShareBodies \cup FewShareBodies

BooleanOrAbsent(v) == v \in {"true", "false", "null", Undefined}

\* C1 (as stated): for every stored document D and every user U who is not
\* D's owner, each of GET, PUT, PUT status, DELETE, create-share,
\* get-latest-share and list-shares on D responds 403 and leaves the documents
\* and the shares unchanged.
C1_NonOwnerAlwaysForbidden ==
    \A uid \in Users, d \in DOMAIN documents :
        documents[d].userId # uid =>
            /\ Refused(GetDocument(World, uid, d), 403)
            /\ \A body \in PutBodies : Refused(PutDocument(World, uid, d, body), 403)
            /\ \A status \in StatusInputs :
                   Refused(PutDocumentStatus(World, uid, d, status), 403)
            /\ Refused(DeleteDocument(World, uid, d), 403)
            /\ \A body \in AllShareBodies : Refused(PostShare(World, uid, d, body), 403)
            /\ Refused(GetLatestShare(World, uid, d), 403)
            /\ Refused(GetShares(World, uid, d), 403)

\* C1 (amended): for every stored document D and every user U who is not D's
\* owner, GET, PUT, DELETE, get-latest-share and list-shares on D respond 403;
\* PUT status responds 403 when the status is one of the allowed statuses and
\* 400 otherwise; create-share responds 403 when every flag is a boolean, null
\* or absent and 400 otherwise; in every case the documents and the shares are
\* unchanged.
C1_NonOwnerRefused ==
    \A uid \in Users, d \in DOMAIN documents :
        documents[d].userId # uid =>
            /\ Refused(GetDocument(World, uid, d), 403)
            /\ \A body \in PutBodies : Refused(PutDocument(World, uid, d, body), 403)
            /\ \A status \in StatusInputs :
                   Refused(PutDocumentStatus(World, uid, d, status),
                           IF status \in {"Draft", "Applied", "Interviewing", "Offer",
                                          "Rejected"}
                           THEN 403 ELSE 400)
            /\ Refused(DeleteDocument(World, uid, d), 403)
            /\ \A body \in AllShareBodies :
                   Refused(PostShare(World, uid, d, body),
                           IF \A f \in DOMAIN body : BooleanOrAbsent(body[f])
                           THEN 403 ELSE 400)
            /\ Refused(GetLatestShare(World, uid, d), 403)
            /\ Refused(GetShares(World, uid, d), 403)

\* A user who does not own the shared document has asked for a share of it
\* and was refused.
C1_Witness ==
    /\ res = [op |-> "PostShare", status |-> 403]
    /\ DOMAIN shares # {}
    /\ \E d \in DOMAIN documents : \E uid \in Users : documents[d].userId # uid

\* C2: the view ResolveShare returns holds a content field only if the
\* share's flag for that field is true, and always holds companyName,
\* positionName and isEditable.
C2_ViewRespectsVisibility ==
    \A t \in DOMAIN shares :
        LET r == GetSharedDocument(World, t) IN
        r.status = 200 =>
            /\ {"companyName", "positionName", "isEditable"} \subseteq DOMAIN r.body
            /\ \A f \in ContentFields :
                   f \in DOMAIN r.body => shares[t].config[f] = TRUE

\* A share that shows the resume and hides the notes has been resolved.
C2_Witness ==
    /\ res = [op |-> "GetSharedDocument", status |-> 200]
    /\ \E t \in DOMAIN shares :
           /\ shares[t].config.resumeMarkdown
           /\ ~shares[t].config.notes
           /\ shares[t].expiresAt >= now

\* C3: when the clock is past a share's expiresAt, the view and the download
\* of its token respond 410 and carry no content, whatever the share shows.
C3_ExpiredIsGone ==
    \A t \in DOMAIN shares :
        now > shares[t].expiresAt =>
            /\ LET r == GetSharedDocument(World, t) IN
                   r.status = 410 /\ DOMAIN r.body \cap ContentFields = {}
            /\ \A resume \in QueryFlags, cover_letter \in QueryFlags :
                   LET r == DownloadSharedDocument(World, t, resume, cover_letter) IN
                       r.status = 410 /\ "markdownContent" \notin DOMAIN r.body

\* An expired share that shows a field has been resolved, to 410.
C3_Witness ==
    /\ res = [op |-> "GetSharedDocument", status |-> 410]
    /\ \E t \in DOMAIN shares :
           now > shares[t].expiresAt /\ shares[t].config.resumeMarkdown

\* C4: a shared update through a share that is not editable responds 403 and
\* leaves every document unchanged, whatever the body.
C4_ReadOnlyShareRefusesUpdate ==
    \A t \in DOMAIN shares :
        shares[t].isEditable = FALSE =>
            \A body \in SharedBodies :
                LET r == PutSharedDocument(World, t, body) IN
                    r.status = 403 /\ r.world.documents = documents

\* A shared update through a read-only share has been refused.
C4_Witness ==
    /\ res = [op |-> "PutSharedDocument", status |-> 403]
    /\ \E t \in DOMAIN shares : ~shares[t].isEditable

\* C5: a shared update through an editable, unexpired share of a stored
\* document succeeds, and each content field of the document then holds the
\* supplied value if the field is supplied and the share shows it, and its
\* former value otherwise; no other document changes.
C5_SharedUpdateWritesVisibleOnly ==
    \A t \in DOMAIN shares :
        LET d == shares[t].documentId IN
        (shares[t].isEditable /\ now <= shares[t].expiresAt /\ d \in DOMAIN documents) =>
            \A body \in SharedBodies :
                LET r == PutSharedDocument(World, t, body) IN
                    /\ r.status = 200
                    /\ DOMAIN r.world.documents = DOMAIN documents
                    /\ \A d2 \in DOMAIN documents \ {d} :
                           r.world.documents[d2] = documents[d2]
                    /\ \A f \in ContentFields :
                           r.world.documents[d][f] =
                               IF body[f] # Undefined /\ shares[t].config[f]
                               THEN body[f] ELSE documents[d][f]

\* Through a share that shows the resume and hides the notes, the resume has
\* been rewritten and the notes are as they were created.
C5_Witness ==
    /\ res = [op |-> "PutSharedDocument", status |-> 200]
    /\ \E t \in DOMAIN shares :
           /\ shares[t].isEditable
           /\ shares[t].config.resumeMarkdown
           /\ ~shares[t].config.notes
           /\ shares[t].documentId \in DOMAIN documents
           /\ documents[shares[t].documentId].resumeMarkdown = "R1"
           /\ documents[shares[t].documentId].notes = Empty

\* C6 (as stated): a shared update through an expired share responds 410,
\* whether the share is editable or not, and leaves every document unchanged.
C6_ExpiredUpdateAlwaysGone ==
    \A t \in DOMAIN shares :
        now > shares[t].expiresAt =>
            \A body \in SharedBodies :
                LET r == PutSharedDocument(World, t, body) IN
                    r.status = 410 /\ r.world.documents = documents

\* C6 (amended): a shared update through an expired share responds 410 when
\* the share is editable and 403 when it is not, and leaves every document
\* unchanged.
C6_ExpiredUpdateRefused ==
    \A t \in DOMAIN shares :
        now > shares[t].expiresAt =>
            \A body \in SharedBodies :
                LET r == PutSharedDocument(World, t, body) IN
                    /\ r.status = IF shares[t].isEditable THEN 410 ELSE 403
                    /\ r.world.documents = documents

\* A shared update through an expired, editable share has been refused.
C6_Witness ==
    /\ res = [op |-> "PutSharedDocument", status |-> 410]
    /\ \E t \in DOMAIN shares : now > shares[t].expiresAt /\ shares[t].isEditable

\* The time that may pass between two requests.
Delays == {0, ShareTtl + RateWindow}

\* The world after a delay.
Later(w, delay) == [w EXCEPT !.now = @ + delay]

\* C7: when the owner of a document creates or updates its share and, at once
\* or later, does so again, both succeeding, there is exactly one share of
\* that document by that user, and it holds the second request's visibility
\* flags and editable flag and expires 30 days after the second request.
C7_UpsertTwiceLeavesOneShare ==
    \A uid \in Users, d \in DOMAIN documents :
        documents[d].userId = uid =>
            \A body1 \in FirstBodies :
                \A r1 \in {PostShare(World, uid, d, body1)} :
                    r1.status = 200 =>
                        \A body2 \in BoolShareBodies, delay \in Delays :
                            \A r2 \in {PostShare(Later(r1.world, delay), uid, d, body2)} :
                                \A mine \in {{t \in DOMAIN r2.world.shares :
                                                 /\ r2.world.shares[t].documentId = d
                                                 /\ r2.world.shares[t].createdBy = uid}} :
                                    /\ r2.status = 200
                                    /\ Cardinality(mine) = 1
                                    /\ \A t \in mine :
                                           /\ r2.body.shareUrl = t
                                           /\ r2.world.shares[t].config =
                                                  [resumeMarkdown |->
                                                       body2.resumeMarkdown = "true",
                                                   coverLetterMarkdown |->
                                                       body2.coverLetterMarkdown = "true",
                                                   notes |-> body2.notes = "true"]
                                           /\ r2.world.shares[t].isEditable =
                                                  (body2.isEditable = "true")
                                           /\ r2.world.shares[t].expiresAt =
                                                  now + delay + 720

\* The owner's second request has updated the share a month after the first
\* created it.
C7_Witness ==
    /\ res = [op |-> "PostShare", status |-> 200]
    /\ \E t \in DOMAIN shares :
           /\ "updatedAt" \in DOMAIN shares[t]
           /\ shares[t].updatedAt > shares[t].createdAt
           /\ shares[t].expiresAt = now + 720
    /\ Cardinality(DOMAIN shares) = 1

\* The time of the request that last created or updated a share, as the store
\* recorded it.
LastUpsert(share) ==
    IF "updatedAt" \in DOMAIN share THEN share.updatedAt ELSE share.createdAt

SameExpiry(r) ==
    \A t \in DOMAIN r.world.shares \cap DOMAIN shares :
        r.world.shares[t].expiresAt = shares[t].expiresAt

\* C9: every stored share expires exactly 30 days after the request that last
\* created or updated it; a create-or-update request that succeeds sets the
\* expiry of its share to 30 days from now; no other request changes the
\* expiry of a stored share.
C9_ExpiryIsLastUpsertPlus30Days ==
    /\ \A t \in DOMAIN shares : shares[t].expiresAt = LastUpsert(shares[t]) + 720
    /\ \A uid \in Users, d \in DocIds, body \in AllShareBodies :
           LET r == PostShare(World, uid, d, body) IN
               r.status = 200 =>
                   /\ r.world.shares[r.body.shareUrl].expiresAt = now + 720
                   /\ \A t \in DOMAIN shares \ {r.body.shareUrl} :
                          r.world.shares[t] = shares[t]
    /\ \A t \in Tokens :
           /\ SameExpiry(GetSharedDocument(World, t))
           /\ \A body \in SharedBodies : SameExpiry(PutSharedDocument(World, t, body))
           /\ \A resume \in QueryFlags, cover_letter \in QueryFlags :
                  SameExpiry(DownloadSharedDocument(World, t, resume, cover_letter))
           /\ \A uid \in Users, d \in DocIds : SameExpiry(DeleteShare(World, uid, d, t))
    /\ \A uid \in Users, d \in DocIds :
           /\ SameExpiry(GetShares(World, uid, d))
           /\ SameExpiry(GetLatestShare(World, uid, d))
           /\ SameExpiry(GetDocument(World, uid, d))
           /\ SameExpiry(DeleteDocument(World, uid, d))
           /\ \A body \in PutBodies : SameExpiry(PutDocument(World, uid, d, body))
           /\ \A status \in StatusInputs :
                  SameExpiry(PutDocumentStatus(World, uid, d, status))

\* A share created at the start and updated a month later has been read
\* after the update.
C9_Witness ==
    /\ res = [op |-> "GetSharedDocument", status |-> 200]
    /\ \E t \in DOMAIN shares :
           /\ shares[t].createdAt = 0
           /\ "updatedAt" \in DOMAIN shares[t]
           /\ shares[t].updatedAt = 720
           /\ shares[t].expiresAt = 1440

\* C8: in every state, including those reached when create-share requests
\* for the same document interleave at their store calls, there is at most one
\* share for each pair of a document and a creating user.
C8_AtMostOneSharePerPair ==
    \A t1 \in DOMAIN shares, t2 \in DOMAIN shares :
        (shares[t1].documentId = shares[t2].documentId
         /\ shares[t1].createdBy = shares[t2].createdBy) => t1 = t2

\* C10: a request of user u for a share of a document of theirs that has
\* none succeeds and stores one more share when fewer than ten shares by u
\* are stored; when ten are stored, all created within the last 60 minutes,
\* it responds 429 and stores nothing.
C10_EleventhCreationIsRateLimited ==
    \A uid \in Users :
        \A mine \in {{t \in DOMAIN shares : shares[t].createdBy = uid}} :
            \A d \in DOMAIN documents, body \in RateBodies :
                (documents[d].userId = uid
                 /\ \A t \in mine : shares[t].documentId # d) =>
                    \A r \in {PostShare(World, uid, d, body)} :
                        /\ Cardinality(mine) < 10 =>
                               /\ r.status = 200
                               /\ Cardinality(DOMAIN r.world.shares) =
                                      Cardinality(DOMAIN shares) + 1
                               /\ r.world.shares[r.body.shareUrl].documentId = d
                        /\ (Cardinality(mine) = 10
                            /\ \A t \in mine : now - shares[t].createdAt <= 1) =>
                               /\ r.status = 429
                               /\ r.world.shares = shares

\* Ten shares were created within an hour and the eleventh request has been
\* answered 429.
C10_Witness ==
    /\ res = [op |-> "PostShare", status |-> 429]
    /\ Cardinality(DOMAIN shares) = 10
    /\ \A t \in DOMAIN shares : now - shares[t].createdAt <= 1
    /\ \E t \in DOMAIN shares : shares[t].createdAt < now

\* C11: as long as the clock stands at the instant the server started, every
\* share ever created was created inside one 60-minute window, so at most ten
\* tokens have been drawn (one is drawn for each successful creation), also
\* when shares were deleted in between.
C11_AtMostTenCreationsPerWindow == now = 0 => tokSeq <= 10

\* C12: a create-or-update request of the owner for a document that already
\* has a share of theirs succeeds, whatever the number of their recent
\* shares; it stores no new share, leaves createdAt of every share as it was
\* and leaves the set of shares the rate limit counts as it was.
C12_UpdateIsNotRateLimited ==
    \A d \in DOMAIN documents, body \in RateBodies :
        (\E t \in DOMAIN shares :
            shares[t].documentId = d /\ shares[t].createdBy = Owner) =>
            \A r \in {PostShare(World, Owner, d, body)} :
                /\ r.status = 200
                /\ DOMAIN r.world.shares = DOMAIN shares
                /\ \A t \in DOMAIN shares :
                       r.world.shares[t].createdAt = shares[t].createdAt
                /\ {t \in DOMAIN shares :
                       r.world.shares[t].createdBy = Owner
                       /\ now - r.world.shares[t].createdAt <= 1}
                   = {t \in DOMAIN shares :
                       shares[t].createdBy = Owner /\ now - shares[t].createdAt <= 1}

\* Ten shares were created in the last hour and then one of them has been
\* refreshed.
C12_Witness ==
    /\ res = [op |-> "PostShare", status |-> 200]
    /\ Cardinality({t \in DOMAIN shares :
           shares[t].createdBy = Owner /\ now - shares[t].createdAt <= 1}) >= 10
    /\ \A t \in DOMAIN shares : shares[t].createdAt < now
    /\ \E t \in DOMAIN shares :
           "updatedAt" \in DOMAIN shares[t] /\ shares[t].updatedAt = now

\* The document ids a request may name: those the store has issued and one
\* it has not.
AnyDocIds == 1..(docSeq + 1)

\* C13: DeleteShare answers 404 when the token is not stored and 403 when
\* the share was created by another user or belongs to another document,
\* and leaves every share as it was in both cases; otherwise it answers 200
\* and removes that share and no other.
C13_DeleteShareChecksCreatorAndDocument ==
    \A uid \in Users, d \in AnyDocIds, t \in 1..(tokSeq + 1) :
        \A r \in {DeleteShare(World, uid, d, t)} :
            IF t \notin DOMAIN shares
            THEN r.status = 404 /\ r.world.shares = shares
            ELSE IF shares[t].createdBy # uid \/ shares[t].documentId # d
            THEN r.status = 403 /\ r.world.shares = shares
            ELSE /\ r.status = 200
                 /\ DOMAIN r.world.shares = DOMAIN shares \ {t}
                 /\ \A t2 \in DOMAIN shares \ {t} : r.world.shares[t2] = shares[t2]

\* A delete of a stored share has been refused.
C13_Witness ==
    /\ res = [op |-> "DeleteShare", status |-> 403]
    /\ shares # <<>>

\* C14: deleting a document leaves every share stored; as long as a share
\* whose document is deleted has not expired, view and download through its
\* token answer 404 without any content field.
C14_SharesOutliveTheirDocument ==
    /\ \A uid \in Users, d \in AnyDocIds :
           DeleteDocument(World, uid, d).world.shares = shares
    /\ \A t \in DOMAIN shares, delay \in {0, ShareTtl} :
           (shares[t].documentId \notin DOMAIN documents
            /\ ~(now + delay > shares[t].expiresAt)) =>
               \A r \in {GetSharedDocument(Later(World, delay), t)} \cup
                        {DownloadSharedDocument(Later(World, delay), t, resume, cover) :
                            resume \in QueryFlags, cover \in QueryFlags} :
                   /\ r.status = 404
                   /\ DOMAIN r.body \cap (ContentFields \cup {"markdownContent"}) = {}

\* A view through the share of a deleted document has been answered 404.
C14_Witness ==
    /\ res = [op |-> "GetSharedDocument", status |-> 404]
    /\ \E t \in DOMAIN shares : shares[t].documentId \notin DOMAIN documents

\* Share bodies with one flag that is not a boolean.
NonBooleanBodies ==
    {[[f \in {"resumeMarkdown", "coverLetterMarkdown", "notes", "isEditable"}
          |-> rest] EXCEPT ![bad] = v] :
        bad \in {"resumeMarkdown", "coverLetterMarkdown", "notes", "isEditable"},
        v \in {"yes", Empty}, rest \in {"true", Undefined}}

\* Share bodies with flags that are true or absent.
SparseBodies ==
    [resumeMarkdown : {"true", Undefined}, coverLetterMarkdown : {"true", Undefined},
     notes : {"true", Undefined}, isEditable : {"true", Undefined}]

C20_DownloadNameAndSeparator ==
    \A t \in DOMAIN shares, resume \in DownloadFlags, cover \in DownloadFlags :
        \A r \in {DownloadSharedDocument(World, t, resume, cover)} :
            r.status = 200 =>
                LET doc == documents[shares[t].documentId]
                    inclResume == /\ resume = "true"
                                  /\ shares[t].config.resumeMarkdown
                                  /\ doc.resumeMarkdown # Empty
                    inclCover == /\ cover = "true"
                                 /\ shares[t].config.coverLetterMarkdown
                                 /\ doc.coverLetterMarkdown # Empty
                IN  /\ inclResume \/ inclCover
                    /\ r.body.filename =
                           <<doc.companyName,
                             IF inclResume /\ inclCover THEN "-application.pdf"
                             ELSE IF inclResume THEN "-resume.pdf"
                             ELSE "-cover-letter.pdf">>
                    /\ r.body.markdownContent =
                           IF inclResume /\ inclCover
                           THEN <<doc.resumeMarkdown, "\n\n---\n\n",
                                  doc.coverLetterMarkdown>>
                           ELSE IF inclResume THEN <<doc.resumeMarkdown>>
                           ELSE <<doc.coverLetterMarkdown>>

\* A document without a resume has been downloaded through a share that
\* shows the resume and the cover letter.
C20_Witness ==
    /\ res = [op |-> "DownloadSharedDocument", status |-> 200]
    /\ \E t \in DOMAIN shares :
           /\ shares[t].config.resumeMarkdown
           /\ shares[t].config.coverLetterMarkdown
           /\ documents[shares[t].documentId].resumeMarkdown = Empty
           /\ documents[shares[t].documentId].coverLetterMarkdown = "C1"

\* C16: in the pooled-browser revision, whenever every export request
\* received has run to its end no page is open, and every page that is open
\* is eventually closed, whether its rendering succeeded or threw.
C16_PagesAreEventuallyClosed ==
    /\ []((\A i \in DOMAIN exports : exports[i].pc = "done") =>
              \A p \in DOMAIN pages : pages[p] = "closed")
    /\ \A p \in 1..MaxExports :
           (p \in DOMAIN pages /\ pages[p] = "open") ~>
               (p \in DOMAIN pages /\ pages[p] = "closed")

\* A rendering threw after its page was opened, and the page is closed.
C16_Witness ==
    \E i \in DOMAIN exports :
        /\ exports[i].status = 500
        /\ exports[i].page # 0
        /\ pages[exports[i].page] = "closed"

\* C17: in the pooled-browser revision the server comes to listen only with
\* the browser launched, a request is taken up only with the browser
\* launched, and the process exits only from the launch, before it ever
\* listened, and never listens afterwards.
C17_ListensOnlyAfterLaunch ==
    [][renderer = "puppeteer" =>
          /\ server' = "listening" => browserInstance' = "browser"
          /\ exports' # exports => browserInstance = "browser"
          /\ server' = "exited" => server \in {"startBrowser", "exited"}
          /\ server = "exited" => server' = "exited"]_vars

\* The browser was launched, the server listens and has taken up a request.
C17_Witness ==
    /\ renderer = "puppeteer"
    /\ server = "listening"
    /\ browserInstance = "browser"
    /\ exports # <<>>

\* C18: an export request whose renderer failed, and whose handling has no
\* step left, has been answered 500.
C18_RendererFailureAnswers500 ==
    \A i \in DOMAIN exports :
        (exports[i].failed /\ exports[i].pc = "done") => exports[i].status = 500

\* C19: an export request without Markdown content, and a shared download
\* whose share resolves and whose selected sections hold nothing, is
\* answered 400 at once, with no page opened and no converter started.
C19_EmptyContentIsNotRendered ==
    \A i \in DOMAIN exports :
        LET q == exports[i]
            Selected(flag, f) ==
                /\ flag = "true"
                /\ shares[q.shareToken].config[f]
                /\ documents[shares[q.shareToken].documentId][f] # Empty
        IN  (\/ q.route = "generate-pdf" /\ q.markdownContent \in {Empty, Undefined}
             \/ /\ q.route = "download"
                /\ q.shareToken \in DOMAIN shares
                /\ ~(now > shares[q.shareToken].expiresAt)
                /\ shares[q.shareToken].documentId \in DOMAIN documents
                /\ ~Selected(q.resume, "resumeMarkdown")
                /\ ~Selected(q.cover_letter, "coverLetterMarkdown")) =>
                /\ q.status = 400
                /\ q.pc = "done"
                /\ q.page = 0
                /\ ~q.spawned
                /\ i \notin DOMAIN pages

\* A request without content and a download of no section have both been
\* answered 400.
C19_Witness ==
    /\ \E i \in DOMAIN exports :
           /\ exports[i].route = "generate-pdf"
           /\ exports[i].markdownContent = Empty
           /\ exports[i].status = 400
    /\ \E i \in DOMAIN exports :
           /\ exports[i].route = "download"
           /\ exports[i].shareToken \in DOMAIN shares
           /\ exports[i].status = 400

\* C21: a request for a protected route without a Bearer credential is
\* answered 401 and one whose token fails verification 403, with nothing but
\* a message and with every document and share as before; a request for a
\* public share route is answered by its handler whatever the header.
C21_ProtectedRoutesRequireVerifiedBearer ==
    \A q \in Requests :
        IF q.route \in {"PutSharedDocument", "GetSharedDocument", "DownloadSharedDocument"}
        THEN \A authorization \in Credentials :
                 /\ Serve(World, authorization, q) = Serve(World, <<>>, q)
                 /\ Serve(World, authorization, q).status \notin {401}
        ELSE /\ \A authorization \in {<<>>, <<"Basic ", "u1">>} :
                    \A r \in {Serve(World, authorization, q)} :
                        r.status = 401 /\ r.world = World /\ DOMAIN r.body = {"message"}
             /\ \A authorization \in {<<"Bearer ", "forged">>, <<"Bearer ", Empty>>} :
                    \A r \in {Serve(World, authorization, q)} :
                        r.status = 403 /\ r.world = World /\ DOMAIN r.body = {"message"}

\* A request without credential was turned away while a document and a share
\* of it are stored.
C21_Witness ==
    /\ res.status = 401
    /\ documents # <<>>
    /\ shares # <<>>

\* C22: the status of every stored document is one of Draft, Applied,
\* Interviewing, Offer and Rejected.
C22_StatusIsEnumerated ==
    \A d \in DOMAIN documents :
        documents[d].status \in {"Draft", "Applied", "Interviewing", "Offer", "Rejected"}

\* The bodies that leave out some updatable field.
PartialBodies ==
    {b \in PutBodies : \E f \in DOMAIN b : b[f] = Undefined}

\* C23: a PUT by the owner with only some of the updatable fields answers
\* 200, stores the fields supplied and keeps the others.
C23_PartialPutKeepsOtherFields ==
    \A d \in DOMAIN documents, body \in PartialBodies :
        \A r \in {PutDocument(World, documents[d].userId, d, body)} :
            /\ r.status = 200
            /\ \A f \in DOMAIN body :
                   r.world.documents[d][f] =
                       IF body[f] # Undefined THEN body[f] ELSE documents[d][f]

\* C24: every document belongs to the user who created it, u1, and keeps the
\* time of its creation.
C24_OwnerNeverChanges ==
    \A d \in DOMAIN documents :
        documents[d].userId = "u1" /\ documents[d].createdAt = 0

\* C26: the list of a user holds exactly the stored documents of that user,
\* or those among them with the status asked for when one other than All is
\* given; every field returned holds the stored value, and without a
\* projection every field is returned.
C26_ListHoldsTheCallersDocuments ==
    \A uid \in Users, status \in ListStatuses, fields \in FieldLists :
        \A r \in {GetDocuments(World, uid, status, fields)} :
            /\ r.status = 200
            /\ DOMAIN r.body =
                   {d \in DOMAIN documents :
                       /\ documents[d].userId = uid
                       /\ status \in {Undefined, "All"} \/ documents[d].status = status}
            /\ \A d \in DOMAIN r.body :
                   /\ \A f \in DOMAIN r.body[d] : r.body[d][f] = documents[d][f]
                   /\ fields = <<>> => DOMAIN r.body[d] = DOMAIN documents[d]
                   /\ fields # <<>> =>
                          DOMAIN r.body[d] \subseteq {fields[k] : k \in DOMAIN fields}

\* Documents of two users are stored and a list has been answered.
C26_Witness ==
    /\ res = [op |-> "GetDocuments", status |-> 200]
    /\ \E d1 \in DOMAIN documents, d2 \in DOMAIN documents :
           documents[d1].userId # documents[d2].userId

\* C25: under the pooled browser every request has a page that no other
\* request has, the page holds the HTML of the request's own Markdown once
\* it is loaded, and a PDF that is sent is the print of that HTML.
C25_EachRequestPrintsItsOwnPage ==
    \A i \in DOMAIN exports :
        /\ \A j \in DOMAIN exports :
               (i # j /\ exports[i].page # 0) => exports[i].page # exports[j].page
        /\ exports[i].pc = "pdf" =>
               loaded[exports[i].page] = fullHtml(exports[i].markdownContent)
        /\ exports[i].status = 200 =>
               exports[i].pdf = pdfBuffer(fullHtml(exports[i].markdownContent))

\* Two requests of different content overlap: one has its PDF and its page
\* still open while the page of the other is loaded and not yet printed.
C25_Witness ==
    \E i \in DOMAIN exports, j \in DOMAIN exports :
        /\ exports[i].markdownContent # exports[j].markdownContent
        /\ exports[i].status = 200 /\ exports[i].pc = "close"
        /\ exports[j].pc = "pdf"
        /\ exports[j].page < exports[i].page

\* The fields the update path may write.
RefreshedFields == {"config", "isEditable", "expiresAt", "updatedAt"}

\* C27: when the owner's create-or-update request finds a share of theirs
\* for the document, the response carries the token of that share, no token
\* is added or removed, no other share changes, and of that share only
\* config, isEditable, expiresAt and updatedAt may change: documentId,
\* createdBy and createdAt are as before.
C27_UpdatePathFrame ==
    \A d \in DOMAIN documents, body \in BoolShareBodies :
        LET uid == documents[d].userId
            mine == {t \in DOMAIN shares :
                        shares[t].documentId = d /\ shares[t].createdBy = uid}
        IN  mine # {} =>
                \A r \in {PostShare(World, uid, d, body)} :
                    /\ r.status = 200
                    /\ r.body.shareUrl \in mine
                    /\ DOMAIN r.world.shares = DOMAIN shares
                    /\ r.world.tokSeq = tokSeq
                    /\ r.world.documents = documents
                    /\ \A t \in DOMAIN shares \ {r.body.shareUrl} :
                           r.world.shares[t] = shares[t]
                    /\ \A t \in {r.body.shareUrl} :
                           /\ DOMAIN r.world.shares[t] =
                                  DOMAIN shares[t] \cup {"updatedAt"}
                           /\ \A f \in DOMAIN shares[t] \ RefreshedFields :
                                  r.world.shares[t][f] = shares[t][f]

\* A share has been refreshed a month or more after it was created.
C27_Witness ==
    /\ res = [op |-> "PostShare", status |-> 200]
    /\ \E t \in DOMAIN shares :
           /\ "updatedAt" \in DOMAIN shares[t]
           /\ shares[t].updatedAt = now
           /\ shares[t].createdAt + ShareTtl <= now

\* The sections a download can hold.
Sections == {"resumeMarkdown", "coverLetterMarkdown"}

\* C28: a shared download that succeeds holds no section that the share
\* hides, whatever the query asks for; and when every section the query
\* asks for is hidden by the share, the download of a share that resolves
\* answers 400 and holds no content.
C28_HiddenSectionsAreNeverRendered ==
    \A t \in DOMAIN shares, resume \in DownloadFlags, cover \in DownloadFlags :
        \A r \in {DownloadSharedDocument(World, t, resume, cover)} :
            LET doc == documents[shares[t].documentId]
                Hidden(f) == ~shares[t].config[f]
            IN  /\ r.status = 200 =>
                       \A f \in Sections : Hidden(f) =>
                           \A k \in DOMAIN r.body.markdownContent :
                               r.body.markdownContent[k] # doc[f]
                /\ ( /\ fetchSharedDocumentData(World, t).status = 200
                     /\ resume = "true" => Hidden("resumeMarkdown")
                     /\ cover = "true" => Hidden("coverLetterMarkdown") ) =>
                       r.status = 400 /\ "markdownContent" \notin DOMAIN r.body

\* A download has succeeded through a share that hides the resume of a
\* document that has one.
C28_Witness ==
    /\ res = [op |-> "DownloadSharedDocument", status |-> 200]
    /\ \E t \in DOMAIN shares :
           /\ ~shares[t].config.resumeMarkdown
           /\ shares[t].config.coverLetterMarkdown
           /\ documents[shares[t].documentId].resumeMarkdown = "R1"

\* The tokens that were issued and whose share has been deleted.
Revoked == (1..tokSeq) \ DOMAIN shares

\* A link that resolves to nothing: view, shared update and download
\* answer 404.
Unresolved(w, t) ==
    /\ GetSharedDocument(w, t).status = 404
    /\ \A body \in SharedBodies : PutSharedDocument(w, t, body).status = 404
    /\ \A resume \in QueryFlags, cover \in QueryFlags :
           DownloadSharedDocument(w, t, resume, cover).status = 404

\* C29: the token of a deleted share resolves to nothing from then on; and
\* when its creator deletes a share, that token resolves to nothing at once
\* and the creator's next create-or-update request for the document, no
\* other share of theirs for it being stored, is refused with 429 and
\* changes nothing when ten shares of theirs are an hour old or less, and
\* otherwise stores a new share under a token that was never issued.
C29_DeletedShareIsGoneAndReshareIsNew ==
    /\ \A t \in Revoked : Unresolved(World, t)
    /\ \A t \in DOMAIN shares :
           LET uid == shares[t].createdBy
               d == shares[t].documentId
           IN  \A r \in {DeleteShare(World, uid, d, t)} :
                   /\ r.status = 200
                   /\ Unresolved(r.world, t)
                   /\ (d \in DOMAIN documents /\ documents[d].userId = uid
                       /\ \A t2 \in DOMAIN shares \ {t} :
                              shares[t2].documentId # d \/ shares[t2].createdBy # uid) =>
                          \A p \in {PostShare(r.world, uid, d, CHOOSE b \in FirstBodies : TRUE)} :
                              IF Cardinality({t2 \in DOMAIN shares \ {t} :
                                     /\ shares[t2].createdBy = uid
                                     /\ now - shares[t2].createdAt <= 1}) >= 10
                              THEN p.status = 429 /\ p.world = r.world
                              ELSE /\ p.status = 200
                                   /\ p.body.shareUrl \notin 1..tokSeq
                                   /\ DOMAIN p.world.shares =
                                          (DOMAIN shares \ {t}) \cup {p.body.shareUrl}
                                   /\ p.world.shares[p.body.shareUrl].documentId = d
                                   /\ p.world.shares[p.body.shareUrl].createdAt = now
                                   /\ \A t2 \in DOMAIN shares \ {t} :
                                          p.world.shares[t2] = shares[t2]

\* The first link was deleted and the first document has been shared again
\* under a later token.
C29_Witness ==
    /\ res = [op |-> "PostShare", status |-> 200]
    /\ 1 \in Revoked
    /\ \E t \in DOMAIN shares :
           shares[t].documentId = 1 /\ t = tokSeq /\ shares[t].createdAt = now

\* The first link was deleted and sharing the first document again has been
\* refused.
C29_ReshareRefused ==
    /\ res = [op |-> "PostShare", status |-> 429]
    /\ 1 \in Revoked
    /\ \A t \in DOMAIN shares : shares[t].documentId # 1

\* C30: when the share of a document has expired, its link answers 410, and
\* a create-or-update request of the owner for the document, whatever the
\* number of their recent shares, answers 200 with the token of that share
\* and stores no other token; the link then answers 200 and shows the
\* sections and the editable flag of the request.
C30_ExpiredShareIsRefreshed ==
    \A t \in DOMAIN shares :
        LET uid == shares[t].createdBy
            d == shares[t].documentId
        IN  (shares[t].expiresAt < now /\ d \in DOMAIN documents
             /\ documents[d].userId = uid) =>
                /\ GetSharedDocument(World, t).status = 410
                /\ \A body \in BoolShareBodies :
                       \A r \in {PostShare(World, uid, d, body)} :
                           /\ r.status = 200
                           /\ r.body.shareUrl = t
                           /\ DOMAIN r.world.shares = DOMAIN shares
                           /\ r.world.tokSeq = tokSeq
                           /\ \A v \in {GetSharedDocument(r.world, t)} :
                                  /\ v.status = 200
                                  /\ \A f \in ContentFields :
                                         f \in DOMAIN v.body <=> body[f] = "true"
                                  /\ v.body.isEditable = (body.isEditable = "true")

\* A share that had expired has been refreshed while ten shares of the
\* owner were an hour old or less.
C30_Witness ==
    /\ res = [op |-> "PostShare", status |-> 200]
    /\ \E t \in DOMAIN shares :
           /\ "updatedAt" \in DOMAIN shares[t]
           /\ shares[t].updatedAt = now
           /\ shares[t].createdAt + ShareTtl < now
           /\ ~shares[t].config.notes
    /\ Cardinality({t \in DOMAIN shares :
           shares[t].createdBy = Owner /\ now - shares[t].createdAt <= 1}) >= 10

\* C31: every stored share whose document is stored was created by the user
\* the document belongs to.
C31_SharesBelongToTheOwner ==
    \A t \in DOMAIN shares :
        shares[t].documentId \in DOMAIN documents =>
            shares[t].createdBy = documents[shares[t].documentId].userId

\* A share of a stored document exists and a request to share a document
\* has been refused as not the owner's.
C31_Witness ==
    /\ res = [op |-> "PostShare", status |-> 403]
    /\ \E t \in DOMAIN shares : shares[t].documentId \in DOMAIN documents

\* C32: a shared update through an editable share that has not expired and
\* whose document is not stored answers an error, stores no document under
\* that id and leaves documents and shares as they were.
C32_SharedUpdateNeverRecreates ==
    \A t \in DOMAIN shares, body \in SharedBodies :
        (/\ shares[t].isEditable
         /\ ~(shares[t].expiresAt < now)
         /\ shares[t].documentId \notin DOMAIN documents) =>
            \A r \in {PutSharedDocument(World, t, body)} :
                /\ r.status >= 400
                /\ shares[t].documentId \notin DOMAIN r.world.documents
                /\ r.world.documents = documents
                /\ r.world.shares = shares

\* The document of an editable share has been deleted and a shared update
\* has answered 500.
C32_Witness ==
    /\ res = [op |-> "PutSharedDocument", status |-> 500]
    /\ \E t \in DOMAIN shares :
           shares[t].isEditable /\ shares[t].documentId \notin DOMAIN documents

====
